---------------------------- MODULE Spec2Model ----------------------------
(***************************************************************************)
(* A model of brr, a hybrid (lexical + dense vector) search engine:        *)
(*   - the two-tier progressive searcher (fusion/two_tier.py), a Python    *)
(*     generator driven by its caller,                                     *)
(*   - reciprocal rank fusion (fusion/rrf.py) and blending                 *)
(*     (fusion/blend.py), pure functions,                                  *)
(*   - query canonicalization and classification (core/).                  *)
(*                                                                         *)
(* Scores are IEEE doubles in the program.  Here a score is an exact       *)
(* rational, held as an integer number of units of 1/ONE, where ONE is      *)
(* chosen so that every 1/(k + rank + 1) and every blend the model can     *)
(* form is a whole number of units.                                        *)
(***************************************************************************)
EXTENDS Integers, Sequences, FiniteSets, TLC

VARIABLES
    mode,             \* which entry point this behaviour exercises
    \* ---- TwoTierSearcher and one search(query, k) generator
    index,            \* VectorIndex: [dimension, doc_ids, vectors]
    cfg,              \* the searcher's configuration and collaborators
    query,            \* the query argument (a sequence of characters)
    k,                \* the k argument
    pc,               \* where the generator is suspended
    emitted,          \* the SearchResults yielded so far
    calls,            \* the calls made on the collaborators, in order
    frame,            \* the generator's locals that survive a yield
    \* ---- pure functions under test
    args,             \* the arguments drawn for the function
    out,              \* its result (<<>> until it ran)
    \* ---- a VectorIndex driven by its caller, and the files it persists to
    disk,             \* the .json sidecar and the .npz file, each optional
    before,           \* the index as it was when the last operation began
    appended          \* the (doc_id, row) pairs appended so far, in order

vars ==
    <<mode, index, cfg, query, k, pc, emitted, calls, frame, args, out,
      disk, before, appended>>

----------------------------------------------------------------------------
(* Bounds of the model *)

MaxLen == 2          \* longest ranked list handed to reciprocal_rank_fusion
MaxBlendLen == 2     \* longest FusedHit list handed to blend_scores
MaxRows == 2         \* most rows of the vector index
MaxK == 2            \* largest top-k a caller asks for
MaxText == 4         \* longest text handed to the canonicalization functions
MaxMultiplier == 4   \* largest candidate_multiplier of a configuration

DocIds == {"a", "b", "c"}

\* doc ids are compared as Python strings; these three compare a < b < c
DocOrd(d) == CASE d = "a" -> 1 [] d = "b" -> 2 [] d = "c" -> 3

\* rrf_k values of the configuration (60.0 is the default)
DEFAULT_K == 60
RrfKs == {0, DEFAULT_K}

\* quality_weight in tenths (0.7 is the default)
DEFAULT_QUALITY_WEIGHT == 7
Weights == {5, DEFAULT_QUALITY_WEIGHT}

----------------------------------------------------------------------------
(* Arithmetic helpers *)

Max(a, b) == IF a >= b THEN a ELSE b
Min(a, b) == IF a <= b THEN a ELSE b

RECURSIVE Gcd(_, _)
Gcd(a, b) == IF b = 0 THEN a ELSE Gcd(b, a % b)

RECURSIVE LcmOf(_)
LcmOf(S) ==
    IF S = {} THEN 1
    ELSE LET x == CHOOSE y \in S : TRUE
             r == LcmOf(S \ {x})
         IN (x * r) \div Gcd(x, r)

\* the largest 0-based rank a list of the model can hold
MaxRank == Max(MaxLen, MaxRows) - 1

\* 1.0, in score units: every 1/(k+rank+1) is a whole number of units, and so
\* is every blend of scores given in tenths with a weight in tenths
ONE == 100 * LcmOf({kk + r + 1 : kk \in RrfKs, r \in 0..MaxRank})

\* raw scores a source can report
LexScores == {ONE, 2 * ONE}
SemScores == {ONE \div 2, ONE}

----------------------------------------------------------------------------
(* Optional values (Python's None) and list helpers *)

None == <<>>
Some(v) == <<v>>
IsNone(o) == o = <<>>
Get(o) == o[1]

\* seq[:n]: the first n items, or all but the last -n when n < 0
Take(seq, n) ==
    IF n >= 0 THEN SubSeq(seq, 1, Min(n, Len(seq)))
    ELSE SubSeq(seq, 1, Max(Len(seq) + n, 0))

\* all sequences over S of length at most n
SeqsUpTo(S, n) == UNION {[1..m -> S] : m \in 0..n}

Range(seq) == {seq[i] : i \in 1..Len(seq)}

NoRepeat(pairs) ==
    \A i, j \in 1..Len(pairs) : pairs[i][1] = pairs[j][1] => i = j

----------------------------------------------------------------------------
(* core/types.py *)

FusedHit(doc_id, rrf_score, lexical_rank, semantic_rank, lexical_score, semantic_score, in_both_sources) ==
    [doc_id |-> doc_id, rrf_score |-> rrf_score,
     lexical_rank |-> lexical_rank, semantic_rank |-> semantic_rank,
     lexical_score |-> lexical_score, semantic_score |-> semantic_score,
     in_both_sources |-> in_both_sources]

INITIAL == "INITIAL"
REFINED == "REFINED"
REFINEMENT_FAILED == "REFINEMENT_FAILED"

SearchResult(phase, hits) == [phase |-> phase, hits |-> hits]

----------------------------------------------------------------------------
(* fusion/rrf.py *)

RRFAccumulator(doc_id) ==
    [doc_id |-> doc_id, rrf_score |-> 0,
     lexical_rank |-> None, semantic_rank |-> None,
     lexical_score |-> None, semantic_score |-> None, in_both |-> FALSE]

\* 1.0 / (k + rank + 1)
RrfTermOffByOne(kk, rank) == ONE \div (kk + rank + 2)
RrfTerm(kk, rank) == ONE \div (kk + rank + 1)

\* The sort key is the tuple
\*   (-rrf_score, -(1 if in_both else 0), -(lexical_score or -inf), doc_id);
\* the third component is +inf for an absent lexical_score: held as the pair
\* <<1, 0>>, a present score s as <<0, -s>>.
sort_key(entry_rrf_score, entry_in_both, entry_lexical_score, entry_doc_id) ==
    <<-entry_rrf_score,
      -(IF entry_in_both THEN 1 ELSE 0),
      IF IsNone(entry_lexical_score) THEN 1 ELSE 0,
      IF IsNone(entry_lexical_score) THEN 0 ELSE -Get(entry_lexical_score),
      DocOrd(entry_doc_id)>>

\* Python's tuple comparison a < b, on keys of equal length
RECURSIVE TupleLt(_, _, _)
TupleLt(a, b, i) ==
    IF i > Len(a) THEN FALSE
    ELSE IF a[i] # b[i] THEN a[i] < b[i]
    ELSE TupleLt(a, b, i + 1)

KeyLt(a, b) == TupleLt(a, b, 1)
KeyLe(a, b) == ~KeyLt(b, a)

\* sorted(items, key=...): a stable sort, here by insertion: each item goes
\* after every item already placed whose key is not greater.  `keyed` is the
\* sequence of [key, item] records.
RECURSIVE InsertByKey(_, _)
InsertByKey(sorted, x) ==
    IF sorted = <<>> THEN <<x>>
    ELSE IF KeyLt(x.key, Head(sorted).key) THEN <<x>> \o sorted
    ELSE <<Head(sorted)>> \o InsertByKey(Tail(sorted), x)

RECURSIVE SortKeyed(_)
SortKeyed(keyed) ==
    IF keyed = <<>> THEN <<>>
    ELSE InsertByKey(SortKeyed(SubSeq(keyed, 1, Len(keyed) - 1)),
                     keyed[Len(keyed)])

Items(keyed) == [i \in 1..Len(keyed) |-> keyed[i].item]

\* position of doc_id in the accumulator dict (kept in insertion order), or 0
Find(accum, doc_id) ==
    IF \E i \in 1..Len(accum) : accum[i].doc_id = doc_id
    THEN CHOOSE i \in 1..Len(accum) : accum[i].doc_id = doc_id
    ELSE 0

\* `if doc_id not in accum: accum[doc_id] = _RRFAccumulator(doc_id=doc_id)`
Ensure(accum, doc_id) ==
    IF Find(accum, doc_id) = 0 THEN Append(accum, RRFAccumulator(doc_id))
    ELSE accum

\* the first loop: for rank, (doc_id, score) in enumerate(lexical_results)
RECURSIVE AccumulateLexical(_, _, _, _)
AccumulateLexical(accum, lexical_results, rank, kk) ==
    IF rank >= Len(lexical_results) THEN accum
    ELSE LET doc_id == lexical_results[rank + 1][1]
             score == lexical_results[rank + 1][2]
             acc == Ensure(accum, doc_id)
             i == Find(acc, doc_id)
             entry == [acc[i] EXCEPT !.rrf_score = @ + RrfTerm(kk, rank),
                                     !.lexical_rank = Some(rank),
                                     !.lexical_score = Some(score)]
         IN AccumulateLexical([acc EXCEPT ![i] = entry],
                              lexical_results, rank + 1, kk)

\* the second loop: for rank, (doc_id, score) in enumerate(semantic_results)
RECURSIVE AccumulateSemantic(_, _, _, _)
AccumulateSemantic(accum, semantic_results, rank, kk) ==
    IF rank >= Len(semantic_results) THEN accum
    ELSE LET doc_id == semantic_results[rank + 1][1]
             score == semantic_results[rank + 1][2]
             acc == Ensure(accum, doc_id)
             i == Find(acc, doc_id)
             entry == [acc[i] EXCEPT !.rrf_score = @ + RrfTerm(kk, rank),
                                     !.semantic_rank = Some(rank),
                                     !.semantic_score = Some(score)]
         IN AccumulateSemantic([acc EXCEPT ![i] = entry],
                               semantic_results, rank + 1, kk)

\* the third loop: entry.in_both = lexical_rank is not None and semantic_rank is not None
InBothAlwaysFalse(entry) == FALSE
InBoth(entry) == ~IsNone(entry.lexical_rank) /\ ~IsNone(entry.semantic_rank)

SetInBoth(accum) ==
    [i \in 1..Len(accum) |-> [accum[i] EXCEPT !.in_both = InBoth(accum[i])]]

AccumulatorKey(entry) ==
    sort_key(entry.rrf_score, entry.in_both, entry.lexical_score, entry.doc_id)

to_fused_hit(accumulated) ==
    FusedHit(accumulated.doc_id, accumulated.rrf_score,
             accumulated.lexical_rank, accumulated.semantic_rank,
             accumulated.lexical_score, accumulated.semantic_score,
             accumulated.in_both)

UnsortedEntries(entries) == entries
SortEntries(entries) ==
    Items(SortKeyed([i \in 1..Len(entries) |->
                        [key |-> AccumulatorKey(entries[i]), item |-> entries[i]]]))

reciprocal_rank_fusion(lexical_results, semantic_results, kk) ==
    LET a1 == AccumulateLexical(<<>>, lexical_results, 0, kk)
        a2 == AccumulateSemantic(a1, semantic_results, 0, kk)
        entries == SortEntries(SetInBoth(a2))
    IN [i \in 1..Len(entries) |-> to_fused_hit(entries[i])]


----------------------------------------------------------------------------
(* fusion/blend.py *)

\* {hit.doc_id: hit for hit in hits}: the last hit of a doc id wins
ById(hits) ==
    [d \in {hits[i].doc_id : i \in 1..Len(hits)} |->
        hits[CHOOSE i \in 1..Len(hits) :
                /\ hits[i].doc_id = d
                /\ \A j \in 1..Len(hits) : hits[j].doc_id = d => j <= i]]

\* dict.get(doc_id): None when absent
DictGet(dict, d) == IF d \in DOMAIN dict THEN Some(dict[d]) ELSE None

\* fast_weight = 1.0 - quality_weight, in tenths
FastWeight(quality_weight) == 10 - quality_weight

\* quality_weight * qual_score + fast_weight * fast_score, weights in tenths
BlendedScoreFastOnly(qual_score, fast_score, quality_weight, fast_weight) ==
    fast_score
BlendedScore(qual_score, fast_score, quality_weight, fast_weight) ==
    (quality_weight * qual_score + fast_weight * fast_score) \div 10

\* `ref = qual_hit or fast_hit`
RefHitFastFirst(fast_hit, qual_hit) ==
    IF ~IsNone(fast_hit) THEN fast_hit ELSE qual_hit
RefHit(fast_hit, qual_hit) == IF ~IsNone(qual_hit) THEN qual_hit ELSE fast_hit

blend_single(doc_id, fast_hit, qual_hit, quality_weight, fast_weight) ==
    LET fast_score == IF ~IsNone(fast_hit) THEN Get(fast_hit).rrf_score ELSE 0
        qual_score == IF ~IsNone(qual_hit) THEN Get(qual_hit).rrf_score ELSE 0
        score == BlendedScore(qual_score, fast_score, quality_weight, fast_weight)
        ref == Get(RefHit(fast_hit, qual_hit))
    IN FusedHit(doc_id, score, ref.lexical_rank, ref.semantic_rank,
                ref.lexical_score, ref.semantic_score, ref.in_both_sources)

BlendKeyNoDocId(hit) ==
    sort_key(hit.rrf_score, hit.in_both_sources, hit.lexical_score, "a")
blend_sort_key(hit) ==
    sort_key(hit.rrf_score, hit.in_both_sources, hit.lexical_score, hit.doc_id)

\* all orders in which a set can be iterated
Orders(S) == {o \in [1..Cardinality(S) -> S] : \A d \in S : \E i \in DOMAIN o : o[i] = d}

\* set(fast_by_id.keys()) | set(quality_by_id.keys())
AllDocIds(fast_hits, quality_hits) ==
    DOMAIN ById(fast_hits) \cup DOMAIN ById(quality_hits)

\* blend_scores, given the order `order` in which the set all_doc_ids is
\* iterated (Python leaves the iteration order of a set of strings open; it
\* changes from run to run with hash randomisation)
blend_scores(fast_hits, quality_hits, quality_weight, order) ==
    LET fast_weight == FastWeight(quality_weight)
        fast_by_id == ById(fast_hits)
        quality_by_id == ById(quality_hits)
        blended == [i \in 1..Len(order) |->
                       blend_single(order[i], DictGet(fast_by_id, order[i]),
                                    DictGet(quality_by_id, order[i]),
                                    quality_weight, fast_weight)]
    IN Items(SortKeyed([i \in 1..Len(blended) |->
                           [key |-> blend_sort_key(blended[i]), item |-> blended[i]]]))

----------------------------------------------------------------------------
(* fusion/two_tier.py: _fuse *)

\* the single-source lists: rrf_score is the raw score of the source
SemanticOnly(semantic) ==
    [i \in 1..Len(semantic) |->
        FusedHit(semantic[i][1], semantic[i][2], None, Some(i - 1),
                 None, Some(semantic[i][2]), FALSE)]

LexicalOnly(lexical) ==
    [i \in 1..Len(lexical) |->
        FusedHit(lexical[i][1], lexical[i][2], Some(i - 1), None,
                 Some(lexical[i][2]), None, FALSE)]

AlwaysRRF(lexical, semantic, rrf_k) ==
    reciprocal_rank_fusion(lexical, semantic, rrf_k)

fuse(lexical, semantic, rrf_k) ==
    IF lexical # <<>> /\ semantic # <<>>
    THEN reciprocal_rank_fusion(lexical, semantic, rrf_k)
    ELSE IF semantic # <<>> THEN SemanticOnly(semantic)
    ELSE IF lexical # <<>> THEN LexicalOnly(lexical)
    ELSE <<>>

----------------------------------------------------------------------------
(* core/canonicalize.py: canonicalize_query, over a small alphabet.         *)
(* "COMB" stands for U+0301 (combining acute), "A_ACUTE" for U+00E1.        *)

Whitespace == {" "}
AsciiLetters == {"a"}
Digits == {"1"}
\* characters \w matches: letters, digits, underscore, in any script
WordChars == AsciiLetters \cup Digits \cup {"_", "A_ACUTE"}
Chars == Whitespace \cup WordChars \cup {"COMB", "-", "/", "?"}

DEFAULT_QUERY_MAX == 500

RECURSIVE lstrip(_)
lstrip(text) ==
    IF text # <<>> /\ Head(text) \in Whitespace THEN lstrip(Tail(text)) ELSE text

RECURSIVE rstrip(_)
rstrip(text) ==
    IF text # <<>> /\ text[Len(text)] \in Whitespace
    THEN rstrip(SubSeq(text, 1, Len(text) - 1)) ELSE text

\* the text as given, whitespace kept
NoStrip(text) == text

\* str.strip()
strip(text) == rstrip(lstrip(text))

\* unicodedata.normalize("NFC", text): a base letter followed by the
\* combining mark composes into the precomposed letter
RECURSIVE nfc(_)
nfc(text) ==
    IF Len(text) < 2 THEN text
    ELSE IF text[1] = "a" /\ text[2] = "COMB"
         THEN <<"A_ACUTE">> \o nfc(SubSeq(text, 3, Len(text)))
         ELSE <<text[1]>> \o nfc(Tail(text))

truncate(text, max_length) ==
    IF Len(text) <= max_length THEN text ELSE SubSeq(text, 1, max_length)

canonicalize_query(text, max_length) == truncate(nfc(strip(text)), max_length)

\* _MD_EMPHASIS_RE, (\*{1,3}|_{1,3})(.*?)\1, tried at position i: the opening
\* run is taken as long as possible (at most 3) among the lengths for which
\* the same run occurs again later, and the text between is as short as
\* possible.  The result is (run length, position of the closing run).
DelimAt(text, j, ch, m) ==
    /\ j + m - 1 <= Len(text)
    /\ \A x \in 0..(m - 1) : text[j + x] = ch

ClosingRuns(text, i, m) ==
    {j \in (i + m)..Len(text) : DelimAt(text, j, text[i], m)}

EmphasisMatch(text, i) ==
    IF text[i] \notin {"*", "_"} THEN None
    ELSE LET ms == {m \in 1..3 : DelimAt(text, i, text[i], m)
                                  /\ ClosingRuns(text, i, m) # {}}
         IN IF ms = {} THEN None
            ELSE LET m == CHOOSE x \in ms : \A y \in ms : y <= x
                     j == CHOOSE x \in ClosingRuns(text, i, m) :
                              \A y \in ClosingRuns(text, i, m) : x <= y
                 IN Some(<<m, j>>)

\* _MD_EMPHASIS_RE.sub(r"\2", text), scanning from position i
RECURSIVE SubEmphasis(_, _)
SubEmphasis(text, i) ==
    IF i > Len(text) THEN <<>>
    ELSE LET found == EmphasisMatch(text, i)
         IN IF IsNone(found) THEN <<text[i]>> \o SubEmphasis(text, i + 1)
            ELSE LET m == Get(found)[1]
                     j == Get(found)[2]
                 IN SubSeq(text, i + m, j - 1) \o SubEmphasis(text, j + m)

\* _MD_HEADING_RE.sub("", text), ^#{1,6}\s+ with re.MULTILINE: the texts of
\* the model have one line, so the only line start is the start of the text
SubHeading(text) ==
    LET hashes == CHOOSE n \in 0..Len(text) :
                      /\ \A i \in 1..n : text[i] = "#"
                      /\ n = Len(text) \/ text[n + 1] # "#"
        rest == SubSeq(text, hashes + 1, Len(text))
    IN IF hashes \in 1..6 /\ rest # <<>> /\ Head(rest) \in Whitespace
       THEN lstrip(rest) ELSE text

\* _MD_LINK_RE rewrites [text](url): it needs a "[", which no text of the
\* model holds
SubLink(text) == text

strip_markdown(text) == SubHeading(SubEmphasis(SubLink(text), 1))

\* _CODE_BLOCK_RE needs a fence of three backquotes, which no text of the
\* model holds
collapse_code_blocks(text) == text

\* URL lines need "http", import lines a keyword, and splitlines / join
\* change a text only at a line break: none of them occurs in the model
filter_low_signal(text) == text

canonicalize(text, max_length) ==
    truncate(filter_low_signal(collapse_code_blocks(strip_markdown(nfc(text)))),
             max_length)

----------------------------------------------------------------------------
(* core/query_class.py *)

EMPTY == "EMPTY"
IDENTIFIER == "IDENTIFIER"
SHORT_KEYWORD == "SHORT_KEYWORD"
NATURAL_LANGUAGE == "NATURAL_LANGUAGE"

SHORT_KEYWORD_MAX_WORDS == 3

\* str.split(): the maximal runs of non-whitespace characters
RECURSIVE split(_)
split(text) ==
    LET t == lstrip(text)
        n == IF \E i \in 1..Len(t) : t[i] \in Whitespace
             THEN (CHOOSE i \in 1..Len(t) :
                      /\ t[i] \in Whitespace
                      /\ \A j \in 1..(i - 1) : t[j] \notin Whitespace) - 1
             ELSE Len(t)
    IN IF t = <<>> THEN <<>>
       ELSE <<SubSeq(t, 1, n)>> \o split(SubSeq(t, n + 1, Len(t)))

\* ^[a-zA-Z]+-\d+$
TICKET_ID_RE(token) ==
    \E i \in 2..(Len(token) - 1) :
        /\ token[i] = "-"
        /\ \A j \in 1..(i - 1) : token[j] \in AsciiLetters
        /\ \A j \in (i + 1)..Len(token) : token[j] \in Digits

\* [/\\] anywhere in the token
NoPathMatch(token) == FALSE
PATH_RE(token) == \E i \in 1..Len(token) : token[i] \in {"/", "\\"}

\* ^[\w./-]+$
IDENTIFIER_RE(token) ==
    /\ token # <<>>
    /\ \A i \in 1..Len(token) : token[i] \in WordChars \cup {".", "/", "-"}

classify_query(q) ==
    LET stripped == strip(q)
        words == split(stripped)
    IN IF stripped = <<>> THEN EMPTY
       ELSE IF /\ Len(words) = 1
               /\ \/ TICKET_ID_RE(words[1])
                  \/ PATH_RE(words[1])
                  \/ IDENTIFIER_RE(words[1])
            THEN IDENTIFIER
       ELSE IF Len(words) <= SHORT_KEYWORD_MAX_WORDS THEN SHORT_KEYWORD
       ELSE NATURAL_LANGUAGE

CandidateBudget(lexical_multiplier, semantic_multiplier) ==
    [lexical_multiplier |-> lexical_multiplier,
     semantic_multiplier |-> semantic_multiplier]

FlatBudget(query_class, base_multiplier) ==
    CandidateBudget(base_multiplier, base_multiplier)

adaptive_budget(query_class, base_multiplier) ==
    CASE query_class = EMPTY -> CandidateBudget(0, 0)
      [] query_class = IDENTIFIER ->
            CandidateBudget(base_multiplier * 2, Max(1, base_multiplier \div 2))
      [] query_class = SHORT_KEYWORD ->
            CandidateBudget(base_multiplier, base_multiplier)
      [] query_class = NATURAL_LANGUAGE ->
            CandidateBudget(Max(1, base_multiplier \div 2), base_multiplier * 2)

\* returns (semantic_k, lexical_k)
compute_budgets(qclass, kk, multiplier) ==
    LET budget == adaptive_budget(qclass, multiplier)
    IN <<kk * budget.semantic_multiplier, kk * budget.lexical_multiplier>>

----------------------------------------------------------------------------
(* Outcomes of a call: it returns a value or raises *)

Returned(value) == [raised |-> FALSE, value |-> value]
Raised == [raised |-> TRUE, value |-> <<>>]

\* raises an exception of a known class
Raise(kind) == [raised |-> TRUE, value |-> <<kind>>]

\* an entry of the call log
Call(target, arg, outcome) ==
    [target |-> target, arg |-> arg,
     raised |-> outcome.raised, value |-> outcome.value]

----------------------------------------------------------------------------
(* index/search.py and index/vector_index.py: search *)

RECURSIVE Dot(_, _)
Dot(u, v) == IF u = <<>> THEN 0 ELSE u[1] * v[1] + Dot(Tail(u), Tail(v))

\* scores = vecs_f32 @ query_f32 (components are whole numbers)
Scores(query_arr, vectors) ==
    [i \in 1..Len(vectors) |-> Dot(query_arr, vectors[i])]

\* The orders np.argsort / np.argpartition may return for the kk largest
\* scores: kk distinct rows (1-based here), by non-increasing score, none left
\* out that beats one taken.  NumPy's default sort kind is not stable, so the
\* order among equal scores is any.
FirstIndices(scores, kk) == {[i \in 1..kk |-> i]}
TopIndices(scores, kk) ==
    {o \in [1..kk -> 1..Len(scores)] :
        /\ \A i, j \in 1..kk : o[i] = o[j] => i = j
        /\ \A i \in 1..(kk - 1) : scores[o[i]] >= scores[o[i + 1]]
        /\ \A r \in 1..Len(scores) :
              (\A i \in 1..kk : o[i] # r) => scores[r] <= scores[o[kk]]}

\* the (index, score) lists top_k_dot_product may return; index is 0-based
top_k_dot_product(query_arr, vectors, kk) ==
    IF Len(vectors) = 0 \/ kk <= 0 THEN {<<>>}
    ELSE LET scores == Scores(query_arr, vectors)
         IN {[i \in 1..Len(o) |-> <<o[i] - 1, scores[o[i]]>>] :
                o \in TopIndices(scores, Min(kk, Len(scores)))}

VectorHit(idx, score, doc_id) == [index |-> idx, score |-> score, doc_id |-> doc_id]

\* VectorIndex.search: the set of its outcomes
DimensionMismatch(idx, query_arr) == Len(query_arr) # idx.dimension

index_search(idx, query_arr, kk) ==
    IF IsNone(idx.vectors) \/ Len(idx.doc_ids) = 0 THEN {Returned(<<>>)}
    ELSE IF DimensionMismatch(idx, query_arr) THEN {Raise("DimensionMismatchError")}
    ELSE {Returned([i \in 1..Len(top) |->
                       VectorHit(top[i][1], top[i][2], idx.doc_ids[top[i][1] + 1])]) :
             top \in top_k_dot_product(query_arr, Get(idx.vectors), kk)}

\* [(hit.doc_id, hit.score) for hit in hits]
DocScores(hits) == [i \in 1..Len(hits) |-> <<hits[i].doc_id, hits[i].score>>]

----------------------------------------------------------------------------
(* index/vector_index.py: add, add_batch, save, load.  An operation is the  *)
(* pair [index, outcome] (the object after the call and what the call did)  *)
(* or, where an outcome depends on the bytes on disk, the set of them.      *)

\* NumPy arrays handed in by the caller or read from disk
Array1(vec) == [ndim |-> 1, shape |-> <<Len(vec)>>, data |-> vec]
Array2(rows, cols) == [ndim |-> 2, shape |-> <<Len(rows), cols>>, data |-> rows]

\* np.vstack([self._vectors, rows]), or rows alone when _vectors is None
VStackReplaces(vectors, rows) == rows
VStack(vectors, rows) == IF IsNone(vectors) THEN rows ELSE Get(vectors) \o rows

\* VectorIndex.add
add(idx, doc_id, embedding) ==
    IF embedding.shape # <<idx.dimension>>
    THEN [index |-> idx, outcome |-> Raise("DimensionMismatchError")]
    ELSE [index |-> [idx EXCEPT !.doc_ids = Append(@, doc_id),
                                !.vectors = Some(VStack(@, <<embedding.data>>))],
          outcome |-> Returned(None)]

\* the index as add_batch leaves it when it raises: both checks come before
\* the first mutation
ExtendedBeforeRaise(idx, doc_ids) == [idx EXCEPT !.doc_ids = @ \o doc_ids]
IndexAfterRaise(idx, doc_ids) == idx

\* VectorIndex.add_batch
add_batch(idx, doc_ids, matrix) ==
    IF matrix.ndim # 2 \/ matrix.shape[2] # idx.dimension
    THEN [index |-> IndexAfterRaise(idx, doc_ids),
          outcome |-> Raise("DimensionMismatchError")]
    ELSE IF matrix.shape[1] # Len(doc_ids)
    THEN [index |-> IndexAfterRaise(idx, doc_ids), outcome |-> Raise("ValueError")]
    ELSE [index |-> [idx EXCEPT !.doc_ids = @ \o doc_ids,
                                !.vectors = Some(VStack(@, matrix.data))],
          outcome |-> Returned(None)]

Abs(x) == IF x < 0 THEN -x ELSE x

\* astype(np.float16) of a whole number of magnitude at most 4096: float16
\* has 11 significant bits, so numbers up to 2048 are kept and the odd ones
\* above go to the neighbour whose last bit is 0 (round half to even)
ToF16(x) ==
    LET a == Abs(x)
        r == IF a <= 2048 \/ a % 2 = 0 THEN a
             ELSE IF (a - 1) % 4 = 0 THEN a - 1 ELSE a + 1
    IN IF x < 0 THEN -r ELSE r

AsF16(rows) == [i \in 1..Len(rows) |-> [j \in 1..Len(rows[i]) |-> ToF16(rows[i][j])]]

\* the contents of the two files
JsonFile(object) == [wellformed |-> TRUE, object |-> object]
NotJson == [wellformed |-> FALSE, object |-> <<>>]
NpzFile(vectors) == [readable |-> TRUE, vectors |-> vectors]
NotNpz == [readable |-> FALSE, vectors |-> <<>>]

META_VERSION == 1

AlwaysF16(use_f16) == "f16"
QuantizationName(use_f16) == IF use_f16 THEN "f16" ELSE "f32"

\* VectorIndex.save: the files it writes
save(idx) ==
    [npz |-> Some(NpzFile(
                IF IsNone(idx.vectors) THEN Array2(<<>>, idx.dimension)
                ELSE IF idx.use_f16 THEN Array2(AsF16(Get(idx.vectors)), idx.dimension)
                ELSE Array2(Get(idx.vectors), idx.dimension))),
     json |-> Some(JsonFile(
                [version |-> META_VERSION,
                 embedder_id |-> idx.embedder_id,
                 dimension |-> idx.dimension,
                 quantization |-> QuantizationName(idx.use_f16),
                 record_count |-> Len(idx.doc_ids),
                 doc_ids |-> idx.doc_ids]))]

\* _load_index_files: (meta, vectors) or an exception.  np.load is outside
\* the try block; what it raises on a damaged archive depends on where the
\* damage is.
UnreadableNpz == {Raise("BadZipFile"), Raise("EOFError")}

load_index_files(files) ==
    IF IsNone(files.json) THEN {Raise("IndexCorruptedError")}
    ELSE IF IsNone(files.npz) THEN {Raise("IndexCorruptedError")}
    ELSE IF ~Get(files.json).wellformed THEN {Raise("IndexCorruptedError")}
    ELSE IF ~Get(files.npz).readable THEN UnreadableNpz
    ELSE {Returned(<<Get(files.json).object, Get(files.npz).vectors>>)}

\* dict.get(key, default) on the sidecar
MetaGet(meta, key, default) == IF key \in DOMAIN meta THEN meta[key] ELSE default

\* VectorIndex.load after the files were read
LoadFrom(meta, vectors) ==
    IF "dimension" \notin DOMAIN meta THEN Raise("KeyError")
    ELSE IF vectors.ndim = 2 /\ vectors.shape[2] # meta.dimension
    THEN Raise("IndexCorruptedError")
    ELSE IF "doc_ids" \notin DOMAIN meta THEN Raise("KeyError")
    ELSE Returned([dimension |-> meta.dimension,
                   embedder_id |-> MetaGet(meta, "embedder_id", ""),
                   use_f16 |-> MetaGet(meta, "quantization", "f16") = "f16",
                   doc_ids |-> meta.doc_ids,
                   vectors |-> IF vectors.shape[1] > 0 THEN Some(vectors.data)
                               ELSE None])

\* VectorIndex.load: the set of its outcomes
load(files) ==
    {IF f.raised THEN f ELSE LoadFrom(f.value[1], f.value[2]) :
        f \in load_index_files(files)}

----------------------------------------------------------------------------
(* The collaborators of a search: what an embedder or a lexical backend    *)
(* can answer.  Both are external; they return any value of their type or   *)
(* raise.                                                                   *)

\* vectors an embedder can return; the last one has the wrong width for the
\* indexes of the model (dimension 1)
QueryVecs == {<<1>>, <<-1>>, <<1, 1>>}
EmbedOutcomes == {Raised} \cup {Returned(v) : v \in QueryVecs}

\* rows (doc id, embedding) an index of the model can hold: two documents
\* with equal embeddings, and one document under two embeddings
IndexRows == {<<"a", <<1>>>>, <<"b", <<1>>>>, <<"b", <<2>>>>}

\* LexicalBackend.search(query, limit): at most `limit` ranked (doc_id, score)
\* pairs of distinct documents, by decreasing score
\* the documents the lexical backend holds
LexDocIds == {"b", "c"}

LexLists ==
    {l \in SeqsUpTo(LexDocIds \X LexScores, MaxLen) :
        /\ NoRepeat(l)
        /\ \A i \in 1..(Len(l) - 1) : l[i][2] > l[i + 1][2]}
LexicalOutcomes(limit) ==
    {Raised} \cup {Returned(l) : l \in {x \in LexLists : Len(x) <= limit}}

----------------------------------------------------------------------------
(* fusion/two_tier.py: the steps of TwoTierSearcher.search.  A step that    *)
(* calls collaborators is the set of its possible runs, each a record       *)
(* [calls, raised, result]: the calls it made, whether an exception left    *)
(* it, and what it returned.                                                *)

Run(calls_made, raised, result) ==
    [calls |-> calls_made, raised |-> raised, result |-> result]

\* embedder.embed(query_text) then index.search(vec, k=top_k), as a try body
EmbedRetried(embedder, idx, query_text, top_k) ==
    {Run(<<Call(embedder, query_text, Raised),
           Call(embedder, query_text, Raised)>>, TRUE, <<>>)}

EmbedThenSearch(embedder, idx, query_text, top_k) ==
    {Run(<<Call(embedder, query_text, Raised)>>, TRUE, <<>>)}
    \cup UNION {
        {Run(<<Call(embedder, query_text, Returned(vec)),
               Call("index.search", top_k, found)>>,
             found.raised,
             IF found.raised THEN <<>> ELSE DocScores(found.value)) :
            found \in index_search(idx, vec, top_k)} :
        vec \in QueryVecs}

\* `except Exception: logger.warning(...); return []`
ExceptReraise(run) == run
ExceptReturnEmpty(run) ==
    IF run.raised THEN Run(run.calls, FALSE, <<>>) ELSE run

run_semantic(idx, query_text, semantic_k) ==
    IF semantic_k <= 0 THEN {Run(<<>>, FALSE, <<>>)}
    ELSE {ExceptReturnEmpty(r) :
             r \in EmbedThenSearch("fast.embed", idx, query_text, semantic_k)}

run_lexical(has_backend, query_text, lexical_k) ==
    IF ~has_backend \/ lexical_k <= 0 THEN {Run(<<>>, FALSE, <<>>)}
    ELSE {ExceptReturnEmpty(
              Run(<<Call("lexical.search", lexical_k, o)>>, o.raised, o.value)) :
             o \in LexicalOutcomes(lexical_k)}

\* the calls made on the collaborators before the INITIAL result is yielded
\* (lines 79-80; nothing else is called up to the yield of line 86)
CallsBeforeInitialEager(semantic_calls, lexical_calls, query_text) ==
    semantic_calls \o lexical_calls
        \o <<Call("quality.embed", query_text, Returned(<<1>>))>>
CallsBeforeInitial(semantic_calls, lexical_calls, query_text) ==
    semantic_calls \o lexical_calls

\* `if self._config.fast_only or self._quality_embedder is None: return`
SkipRefinementIgnoresFastOnly(config) == ~config.has_quality
SkipRefinement(config) == config.fast_only \/ ~config.has_quality

compute_quality_blend(config, idx, query_text, semantic_k, lexical_results, initial_hits, kk) ==
    UNION {
        IF r.raised THEN {r}
        ELSE LET quality_fused == fuse(lexical_results, r.result, config.rrf_k)
                 quality_top == Take(quality_fused, kk)
             IN {Run(r.calls, FALSE,
                     blend_scores(initial_hits, quality_top,
                                  config.quality_weight, order)) :
                    order \in Orders(AllDocIds(initial_hits, quality_top))} :
        r \in EmbedThenSearch("quality.embed", idx, query_text, semantic_k)}

\* `yield SearchResult(phase=SearchPhase.REFINEMENT_FAILED, hits=initial_hits)`
FailedResultAsInitial(initial_hits) == SearchResult(INITIAL, initial_hits)
FailedResultNoHits(initial_hits) == SearchResult(REFINEMENT_FAILED, <<>>)
FailedResult(initial_hits) == SearchResult(REFINEMENT_FAILED, initial_hits)

\* the SearchResult _run_refinement yields for a run of _compute_quality_blend
RefinedUncut(run, initial_hits, kk) ==
    IF run.raised THEN FailedResult(initial_hits)
    ELSE SearchResult(REFINED, run.result)

run_refinement(run, initial_hits, kk) ==
    IF run.raised THEN FailedResult(initial_hits)
    ELSE SearchResult(REFINED, Take(run.result, kk))

----------------------------------------------------------------------------
(* The state machine *)

DEFAULT_MULTIPLIER == 3
Multipliers == {DEFAULT_MULTIPLIER}

\* the indexes add / add_batch can build with at most MaxRows rows: one doc
\* id per row, every row of the declared dimension; duplicate ids allowed
Indexes ==
    {[dimension |-> 1, embedder_id |-> "", use_f16 |-> TRUE,
      doc_ids |-> [i \in 1..Len(rows) |-> rows[i][1]],
      vectors |-> IF rows = <<>> THEN None
                  ELSE Some([i \in 1..Len(rows) |-> rows[i][2]])] :
        rows \in SeqsUpTo(IndexRows, MaxRows)}

NoIndex ==
    [dimension |-> 1, embedder_id |-> "", use_f16 |-> TRUE,
     doc_ids |-> <<>>, vectors |-> None]

\* no files, no operation performed
NoDisk == [json |-> None, npz |-> None]
IndexIdle == disk = NoDisk /\ before = NoIndex /\ appended = <<>>

Configs ==
    [fast_only : BOOLEAN, has_quality : BOOLEAN, has_lexical : BOOLEAN,
     candidate_multiplier : Multipliers, rrf_k : {DEFAULT_K},
     quality_weight : {DEFAULT_QUALITY_WEIGHT}]

DefaultConfig ==
    [fast_only |-> FALSE, has_quality |-> FALSE, has_lexical |-> FALSE,
     candidate_multiplier |-> DEFAULT_MULTIPLIER, rrf_k |-> DEFAULT_K,
     quality_weight |-> DEFAULT_QUALITY_WEIGHT]

\* the queries searched for: "", " ", "a", " a+COMB ?" and "a a a a"
Queries ==
    {<<>>, <<" ">>, <<"a">>, <<" ", "a", "COMB", " ", "?">>,
     <<"a", " ", "a", " ", "a", " ", "a">>}

\* the locals of search that are live across a yield
NoFrame ==
    [query_text |-> <<>>, semantic_k |-> 0,
     lexical_results |-> <<>>, initial_hits |-> <<>>]

Idle ==
    /\ index = NoIndex /\ cfg = DefaultConfig /\ query = <<>> /\ k = 0
    /\ emitted = <<>> /\ calls = <<>> /\ frame = NoFrame

\* a searcher is constructed and search(query, k) is called: the generator
\* object exists and none of its body has run
InitSearch ==
    /\ mode = "search"
    /\ index \in Indexes
    /\ cfg \in Configs
    /\ query \in Queries
    /\ k \in 0..MaxK
    /\ pc = "created"
    /\ emitted = <<>> /\ calls = <<>> /\ frame = NoFrame
    /\ args = <<>> /\ out = <<>>
    /\ IndexIdle

\* the first next(): lines 71-86, up to the first yield
Start ==
    /\ mode = "search" /\ pc = "created"
    /\ LET query_text == canonicalize_query(query, DEFAULT_QUERY_MAX)
           qclass == classify_query(query_text)
           budgets == compute_budgets(qclass, k, cfg.candidate_multiplier)
           semantic_k == budgets[1]
           lexical_k == budgets[2]
       IN IF qclass = EMPTY
          THEN /\ emitted' = Append(emitted, SearchResult(INITIAL, <<>>))
               /\ pc' = "yield_74"
               /\ UNCHANGED <<calls, frame>>
          ELSE \E sem \in run_semantic(index, query_text, semantic_k) :
               \E lex \in run_lexical(cfg.has_lexical, query_text, lexical_k) :
                  /\ calls' = calls \o CallsBeforeInitial(sem.calls, lex.calls,
                                                          query_text)
                  /\ IF sem.raised \/ lex.raised
                     THEN \* the exception leaves the generator
                          /\ pc' = "raised"
                          /\ UNCHANGED <<emitted, frame>>
                     ELSE LET initial_hits ==
                                  Take(fuse(lex.result, sem.result, cfg.rrf_k), k)
                          IN /\ emitted' = Append(emitted,
                                                  SearchResult(INITIAL, initial_hits))
                             /\ frame' = [query_text |-> query_text,
                                          semantic_k |-> semantic_k,
                                          lexical_results |-> lex.result,
                                          initial_hits |-> initial_hits]
                             /\ pc' = "yield_86"
    /\ UNCHANGED <<mode, index, cfg, query, k, args, out, disk, before, appended>>

\* next() after the result of an empty query: line 75, `return`
ResumeEmpty ==
    /\ mode = "search" /\ pc = "yield_74"
    /\ pc' = "finished"
    /\ UNCHANGED <<mode, index, cfg, query, k, emitted, calls, frame, args, out, disk, before, appended>>

\* next() after INITIAL: lines 88-97, the refinement phase or `return`
ResumeInitial ==
    /\ mode = "search" /\ pc = "yield_86"
    /\ IF SkipRefinement(cfg)
       THEN /\ pc' = "finished"
            /\ UNCHANGED <<emitted, calls>>
       ELSE \E run \in compute_quality_blend(cfg, index, frame.query_text,
                                             frame.semantic_k,
                                             frame.lexical_results,
                                             frame.initial_hits, k) :
               /\ calls' = calls \o run.calls
               /\ emitted' = Append(emitted,
                                    run_refinement(run, frame.initial_hits, k))
               /\ pc' = IF run.raised THEN "yield_143" ELSE "yield_148"
    /\ UNCHANGED <<mode, index, cfg, query, k, frame, args, out, disk, before, appended>>

\* next() after REFINED or REFINEMENT_FAILED: the generator ends
ResumeSecond ==
    /\ mode = "search" /\ pc \in {"yield_143", "yield_148"}
    /\ pc' = "finished"
    /\ UNCHANGED <<mode, index, cfg, query, k, emitted, calls, frame, args, out, disk, before, appended>>

\* the caller drops the generator after its first result: GeneratorExit is
\* thrown at the yield, no handler is in the way, nothing else runs
Abandon ==
    /\ mode = "search" /\ pc \in {"yield_74", "yield_86"}
    /\ pc' = "closed"
    /\ UNCHANGED <<mode, index, cfg, query, k, emitted, calls, frame, args, out, disk, before, appended>>

NextSearch == Start \/ ResumeEmpty \/ ResumeInitial \/ ResumeSecond \/ Abandon

SpecSearch == InitSearch /\ [][NextSearch]_vars

----------------------------------------------------------------------------
(* The pure functions, applied to drawn arguments *)

\* ranked (doc_id, score) lists; a doc id may repeat
RankedLists(scores) == SeqsUpTo(DocIds \X scores, MaxLen)

InitRRF ==
    /\ mode = "rrf"
    /\ args \in [lexical : RankedLists(LexScores),
                 semantic : RankedLists(SemScores), rrf_k : RrfKs]
    /\ pc = "ready" /\ out = <<>>
    /\ Idle /\ IndexIdle

CallRRF ==
    /\ mode = "rrf" /\ pc = "ready"
    /\ out' = reciprocal_rank_fusion(args.lexical, args.semantic, args.rrf_k)
    /\ pc' = "returned"
    /\ UNCHANGED <<mode, index, cfg, query, k, emitted, calls, frame, args, disk, before, appended>>

\* FusedHits handed to blend_scores: for each doc id a semantic-only hit, a
\* lexical-only hit and a hit of both sources; the fast tier holds documents
\* a and b, the quality tier b and c
BlendHits(docs) ==
    UNION {{FusedHit(d, ONE, None, Some(0), None, Some(ONE), FALSE),
            FusedHit(d, ONE, Some(0), None, Some(ONE), None, FALSE),
            FusedHit(d, ONE, Some(1), Some(0), Some(ONE), Some(ONE), TRUE)} :
           d \in docs}

\* FusedHits that differ in rrf_score: the fast tier holds documents a and b
\* with scores 0.5 or 1.0, the quality tier a and c with scores 0.8 or 0.9
FastTierScores == {ONE \div 2, ONE}
QualityTierScores == {(4 * ONE) \div 5, (9 * ONE) \div 10}

ScoredHits(docs, scores) ==
    {FusedHit(d, s, None, Some(0), None, Some(ONE), FALSE) : d \in docs, s \in scores}

BlendArgs ==
    [fast_hits : SeqsUpTo(BlendHits({"a", "b"}), MaxBlendLen),
     quality_hits : SeqsUpTo(BlendHits({"b", "c"}), MaxBlendLen),
     quality_weight : {DEFAULT_QUALITY_WEIGHT}]
    \cup
    [fast_hits : SeqsUpTo(ScoredHits({"a", "b"}, FastTierScores), MaxBlendLen),
     quality_hits : SeqsUpTo(ScoredHits({"a", "c"}, QualityTierScores), MaxBlendLen),
     quality_weight : Weights]

InitBlend ==
    /\ mode = "blend"
    /\ args \in BlendArgs
    /\ pc = "ready" /\ out = <<>>
    /\ Idle /\ IndexIdle

CallBlend ==
    /\ mode = "blend" /\ pc = "ready"
    /\ \E order \in Orders(AllDocIds(args.fast_hits, args.quality_hits)) :
          out' = blend_scores(args.fast_hits, args.quality_hits,
                              args.quality_weight, order)
    /\ pc' = "returned"
    /\ UNCHANGED <<mode, index, cfg, query, k, emitted, calls, frame, args, disk, before, appended>>

InitFusion == InitRRF \/ InitBlend
NextFusion == CallRRF \/ CallBlend
SpecFusion == InitFusion /\ [][NextFusion]_vars

----------------------------------------------------------------------------
(* A VectorIndex and its caller: the index is built by add and add_batch    *)
(* and searched, then saved; the files may be damaged behind the program's  *)
(* back; then they are loaded.                                              *)

\* (embedder_id, use_f16) the index is constructed with; the dimension is 1
IndexConfigs == {<<"", TRUE>>, <<"potion", FALSE>>}

NewIndex(embedder_id, use_f16) ==
    [dimension |-> 1, embedder_id |-> embedder_id, use_f16 |-> use_f16,
     doc_ids |-> <<>>, vectors |-> None]

IndexDocIds == {"a", "b"}

\* components of an embedding: 2049 is not a float16 number
Components == {1, 2049}

\* embeddings handed to add: the first two have the index's width, the
\* others are too wide or not one-dimensional
AddInputs ==
    {Array1(<<c>>) : c \in Components}
    \cup {Array1(<<1, 1>>), Array2(<<<<1>>>>, 1)}

\* matrices handed to add_batch: up to MaxRows rows of width 1, all-equal
\* rows of width 2, and an empty list (a one-dimensional array of length 0)
BatchInputs ==
    {Array2(rows, 1) : rows \in SeqsUpTo({<<c>> : c \in Components}, MaxRows)}
    \cup {Array2(<<>>, 2), Array2(<<<<1, 1>>>>, 2), Array1(<<>>)}

\* k arguments of VectorIndex.search
SearchKs == (-1)..MaxK

InitIndex ==
    /\ mode = "vindex"
    /\ \E c \in IndexConfigs : index = NewIndex(c[1], c[2])
    /\ pc = "open"
    /\ disk = NoDisk /\ before = index /\ appended = <<>>
    /\ args = [op |-> "new"] /\ out = Returned(None)
    /\ cfg = DefaultConfig /\ query = <<>> /\ k = 0
    /\ emitted = <<>> /\ calls = <<>> /\ frame = NoFrame

Add ==
    /\ mode = "vindex" /\ pc = "open"
    /\ \E doc_id \in IndexDocIds, embedding \in AddInputs :
          LET r == add(index, doc_id, embedding)
          IN /\ Len(r.index.doc_ids) <= MaxRows
             /\ index' = r.index
             /\ out' = r.outcome
             /\ args' = [op |-> "add", doc_id |-> doc_id, embedding |-> embedding]
             /\ appended' = IF r.outcome.raised THEN appended
                            ELSE Append(appended, <<doc_id, embedding.data>>)
    /\ before' = index
    /\ UNCHANGED <<mode, cfg, query, k, pc, emitted, calls, frame, disk>>

AddBatch ==
    /\ mode = "vindex" /\ pc = "open"
    /\ \E doc_ids \in SeqsUpTo(IndexDocIds, MaxRows), matrix \in BatchInputs :
          LET r == add_batch(index, doc_ids, matrix)
          IN /\ Len(r.index.doc_ids) <= MaxRows
             /\ index' = r.index
             /\ out' = r.outcome
             /\ args' = [op |-> "add_batch", doc_ids |-> doc_ids, matrix |-> matrix]
             /\ appended' = IF r.outcome.raised THEN appended
                            ELSE appended \o [i \in 1..Len(doc_ids) |->
                                                 <<doc_ids[i], matrix.data[i]>>]
    /\ before' = index
    /\ UNCHANGED <<mode, cfg, query, k, pc, emitted, calls, frame, disk>>

Search ==
    /\ mode = "vindex" /\ pc = "open"
    /\ \E query_arr \in QueryVecs, kk \in SearchKs :
          /\ out' \in index_search(index, query_arr, kk)
          /\ args' = [op |-> "search", query |-> query_arr, k |-> kk]
    /\ before' = index
    /\ UNCHANGED <<mode, index, cfg, query, k, pc, emitted, calls, frame,
                   disk, appended>>

Save ==
    /\ mode = "vindex" /\ pc = "open"
    /\ disk' = save(index)
    /\ pc' = "saved"
    /\ args' = [op |-> "save"] /\ out' = Returned(None)
    /\ before' = index
    /\ UNCHANGED <<mode, index, cfg, query, k, emitted, calls, frame, appended>>

\* the sidecar object without one of its keys
WithoutKey(meta, key) == [x \in (DOMAIN meta) \ {key} |-> meta[x]]

\* what can become of saved files: a file is deleted, cut short or
\* overwritten with something else, or the sidecar is edited
Damaged(files) ==
    {[files EXCEPT !.json = None], [files EXCEPT !.npz = None],
     [files EXCEPT !.json = Some(NotJson)], [files EXCEPT !.npz = Some(NotNpz)]}
    \cup
    LET meta == Get(files.json).object
    IN {[files EXCEPT !.json = Some(JsonFile(m))] :
           m \in {[meta EXCEPT !.doc_ids = Append(@, "c")],
                  [meta EXCEPT !.doc_ids = IF @ = <<>> THEN @ ELSE Tail(@)],
                  [meta EXCEPT !.dimension = @ + 1],
                  WithoutKey(meta, "dimension"), WithoutKey(meta, "doc_ids"),
                  WithoutKey(meta, "embedder_id"),
                  WithoutKey(meta, "quantization")}}

Damage ==
    /\ mode = "vindex" /\ pc = "saved"
    /\ disk' \in Damaged(disk)
    /\ pc' = "damaged"
    /\ UNCHANGED <<mode, index, cfg, query, k, emitted, calls, frame, args, out,
                   before, appended>>

Load ==
    /\ mode = "vindex" /\ pc \in {"saved", "damaged"}
    /\ out' \in load(disk)
    /\ pc' = IF pc = "saved" THEN "loaded" ELSE "loaded_damaged"
    /\ args' = [op |-> "load"]
    /\ before' = index
    /\ UNCHANGED <<mode, index, cfg, query, k, emitted, calls, frame, disk,
                   appended>>

NextIndex == Add \/ AddBatch \/ Search \/ Save \/ Damage \/ Load

SpecIndex == InitIndex /\ [][NextIndex]_vars

----------------------------------------------------------------------------
(* The text functions, applied to drawn texts *)

\* the shortest text that holds more words than a short keyword query may
MaxQueryLen == 2 * SHORT_KEYWORD_MAX_WORDS + 1

\* queries handed to classify_query: blanks, a letter, a digit, the dash of
\* a ticket id, a path separator and a character no identifier holds
ClassifyChars == {" ", "a", "1", "-", "/", "?"}

InitClassify ==
    /\ mode = "classify"
    /\ args \in [query : SeqsUpTo(ClassifyChars, MaxQueryLen)]
    /\ pc = "ready" /\ out = <<>>
    /\ Idle /\ IndexIdle

CallClassify ==
    /\ mode = "classify" /\ pc = "ready"
    /\ out' = classify_query(args.query)
    /\ pc' = "returned"
    /\ UNCHANGED <<mode, index, cfg, query, k, emitted, calls, frame, args, disk, before, appended>>

\* texts handed to canonicalize_query: blanks, a letter and a combining mark
QueryChars == {" ", "a", "COMB"}

InitCanonicalizeQuery ==
    /\ mode = "canonicalize_query"
    /\ args \in [text : SeqsUpTo(QueryChars, MaxText), max_length : 0..MaxText]
    /\ pc = "ready" /\ out = <<>>
    /\ Idle /\ IndexIdle

CallCanonicalizeQuery ==
    /\ mode = "canonicalize_query" /\ pc = "ready"
    /\ out' = canonicalize_query(args.text, args.max_length)
    /\ pc' = "returned"
    /\ UNCHANGED <<mode, index, cfg, query, k, emitted, calls, frame, args, disk, before, appended>>

\* document texts handed to canonicalize: emphasis markers, a heading
\* marker, a letter and a blank
DocChars == {"*", "_", "#", "a", " "}

InitCanonicalize ==
    /\ mode = "canonicalize"
    /\ args \in [text : SeqsUpTo(DocChars, MaxText), max_length : {MaxText}]
    /\ pc = "ready" /\ out = <<>>
    /\ Idle /\ IndexIdle

\* canonicalize applied to a text, and again to its result
CallCanonicalize ==
    /\ mode = "canonicalize" /\ pc = "ready"
    /\ LET once == canonicalize(args.text, args.max_length)
       IN out' = <<once, canonicalize(once, args.max_length)>>
    /\ pc' = "returned"
    /\ UNCHANGED <<mode, index, cfg, query, k, emitted, calls, frame, args, disk, before, appended>>

InitText == InitClassify \/ InitCanonicalizeQuery \/ InitCanonicalize
NextText == CallClassify \/ CallCanonicalizeQuery \/ CallCanonicalize
SpecText == InitText /\ [][NextText]_vars

----------------------------------------------------------------------------
(* Overlapping search calls on one TwoTierSearcher: each call is a          *)
(* generator object with its own locals; the searcher, its index and its    *)
(* collaborators are shared.  In this machine query, k, pc, emitted, calls  *)
(* and frame hold one value per generator, args holds the collaborators,    *)
(* which answer the same call the same way every time, and out holds the    *)
(* frame most recently left at a yield by any generator.                    *)

Generators == {1, 2}

PairQueries == {<<>>, <<"a">>, <<"a", " ", "a", " ", "a", " ", "a">>}

\* what a collaborator of the world answers to a logged call
Answer(world, query_text, call) ==
    CASE call.target = "fast.embed" -> world.fast
      [] call.target = "quality.embed" -> world.quality
      [] call.target = "lexical.search" ->
            IF world.lexical[query_text].raised THEN Raised
            ELSE Returned(Take(world.lexical[query_text].value, call.arg))
      [] OTHER -> [raised |-> call.raised, value |-> call.value]

Agrees(world, query_text, run) ==
    \A i \in 1..Len(run.calls) :
        [raised |-> run.calls[i].raised, value |-> run.calls[i].value]
            = Answer(world, query_text, run.calls[i])

\* the locals the refinement works on (lines 91-97 pass the generator's own)
FrameOfSearcher(own, shared) == shared
FrameOf(own, shared) == own

\* lines 71-86 for one generator: its state at the first yield
GenStart(g, idx, config, world) ==
    LET query_text == canonicalize_query(g.query, DEFAULT_QUERY_MAX)
        qclass == classify_query(query_text)
        budgets == compute_budgets(qclass, g.k, config.candidate_multiplier)
    IN IF qclass = EMPTY
       THEN {[g EXCEPT !.pc = "yield_74",
                       !.emitted = <<SearchResult(INITIAL, <<>>)>>]}
       ELSE {LET initial_hits ==
                     Take(fuse(lex.result, sem.result, config.rrf_k), g.k)
             IN [g EXCEPT !.pc = "yield_86",
                          !.calls = CallsBeforeInitial(sem.calls, lex.calls,
                                                       query_text),
                          !.emitted = <<SearchResult(INITIAL, initial_hits)>>,
                          !.frame = [query_text |-> query_text,
                                     semantic_k |-> budgets[1],
                                     lexical_results |-> lex.result,
                                     initial_hits |-> initial_hits]] :
                sem \in {r \in run_semantic(idx, query_text, budgets[1]) :
                            Agrees(world, query_text, r)},
                lex \in {r \in run_lexical(config.has_lexical, query_text,
                                           budgets[2]) :
                            Agrees(world, query_text, r)}}

\* lines 88-97 and _run_refinement for one generator
GenRefine(g, shared, idx, config, world) ==
    IF SkipRefinement(config) THEN {[g EXCEPT !.pc = "finished"]}
    ELSE LET f == FrameOf(g.frame, shared)
         IN {[g EXCEPT !.pc = IF run.raised THEN "yield_143" ELSE "yield_148",
                       !.calls = g.calls \o run.calls,
                       !.emitted = Append(g.emitted,
                                          run_refinement(run, f.initial_hits, g.k))] :
                run \in {r \in compute_quality_blend(config, idx, f.query_text,
                                                     f.semantic_k,
                                                     f.lexical_results,
                                                     f.initial_hits, g.k) :
                            Agrees(world, f.query_text, r)}}

\* one next() or close() on a generator
GenSteps(g, shared, idx, config, world) ==
    CASE g.pc = "created" -> GenStart(g, idx, config, world)
      [] g.pc = "yield_74" ->
            {[g EXCEPT !.pc = "finished"], [g EXCEPT !.pc = "closed"]}
      [] g.pc = "yield_86" ->
            GenRefine(g, shared, idx, config, world)
                \cup {[g EXCEPT !.pc = "closed"]}
      [] g.pc \in {"yield_143", "yield_148"} -> {[g EXCEPT !.pc = "finished"]}
      [] OTHER -> {}

Generator(i) ==
    [query |-> query[i], k |-> k[i], pc |-> pc[i], emitted |-> emitted[i],
     calls |-> calls[i], frame |-> frame[i]]

\* what the lexical backend does for a query: it fails, or it finds
\* documents c and b
PairLexical == {Raised, Returned(<<<<"c", 2 * ONE>>, <<"b", ONE>>>>)}

Worlds ==
    [fast : {Raised, Returned(<<1>>)},
     quality : {Raised, Returned(<<1>>), Returned(<<-1>>)},
     lexical : [PairQueries \ {<<>>} -> PairLexical]]

\* the index the two calls search: documents a and b under different
\* embeddings
PairIndex ==
    [dimension |-> 1, embedder_id |-> "", use_f16 |-> TRUE,
     doc_ids |-> <<"a", "b">>, vectors |-> Some(<<<<1>>, <<2>>>>)]

PairKs == {1, 2}

InitPair ==
    /\ mode = "pair"
    /\ index = PairIndex
    /\ cfg = [DefaultConfig EXCEPT !.has_quality = TRUE, !.has_lexical = TRUE]
    /\ args \in Worlds
    /\ query \in [Generators -> PairQueries]
    /\ k \in [Generators -> PairKs]
    /\ pc = [i \in Generators |-> "created"]
    /\ emitted = [i \in Generators |-> <<>>]
    /\ calls = [i \in Generators |-> <<>>]
    /\ frame = [i \in Generators |-> NoFrame]
    /\ out = NoFrame
    /\ IndexIdle

\* some generator is resumed or closed
PairStep ==
    /\ mode = "pair"
    /\ \E i \in Generators :
       \E g \in GenSteps(Generator(i), out, index, cfg, args) :
          /\ pc' = [pc EXCEPT ![i] = g.pc]
          /\ emitted' = [emitted EXCEPT ![i] = g.emitted]
          /\ calls' = [calls EXCEPT ![i] = g.calls]
          /\ frame' = [frame EXCEPT ![i] = g.frame]
          /\ out' = IF g.pc = "yield_86" THEN g.frame ELSE out
    /\ UNCHANGED <<mode, index, cfg, query, k, args, disk, before, appended>>

SpecPair == InitPair /\ [][PairStep]_vars

\* searchers configured with any candidate_multiplier from 1 up, a lexical
\* backend and a quality embedder, over an index of at most one row
InitBudget ==
    /\ mode = "search"
    /\ index \in {idx \in Indexes : Len(idx.doc_ids) <= 1}
    /\ cfg \in [fast_only : BOOLEAN, has_quality : {TRUE}, has_lexical : {TRUE},
                candidate_multiplier : 1..MaxMultiplier, rrf_k : {DEFAULT_K},
                quality_weight : {DEFAULT_QUALITY_WEIGHT}]
    /\ query \in Queries
    /\ k \in 0..MaxK
    /\ pc = "created"
    /\ emitted = <<>> /\ calls = <<>> /\ frame = NoFrame
    /\ args = <<>> /\ out = <<>>
    /\ IndexIdle

SpecBudget == InitBudget /\ [][NextSearch]_vars

\* everything that produces FusedHits: the searcher and the fusion functions
InitHits == InitSearch \/ InitFusion
NextHits == NextSearch \/ NextFusion
SpecHits == InitHits /\ [][NextHits]_vars

Init == InitSearch \/ InitFusion \/ InitIndex
Next == NextSearch \/ NextFusion \/ NextIndex
Spec == Init /\ [][Next]_vars

----------------------------------------------------------------------------
(* Observations used by the properties *)

\* the query is empty after trimming
Blank(q) == \A i \in 1..Len(q) : q[i] \in Whitespace

CallsTo(target) == {i \in 1..Len(calls) : calls[i].target = target}

\* the index.search calls of the two phases: the fast one is the one that
\* follows fast.embed, the quality one follows quality.embed
SearchCallAfter(embedder) ==
    {i \in CallsTo("index.search") : i > 1 /\ calls[i - 1].target = embedder}

\* a step of the refinement phase raised
RefinementRaised ==
    \/ \E i \in CallsTo("quality.embed") : calls[i].raised
    \/ \E i \in SearchCallAfter("quality.embed") : calls[i].raised

Phases == [i \in 1..Len(emitted) |-> emitted[i].phase]

\* what each source of the initial phase delivered: its list, or nothing if
\* it was not asked or failed
DeliveredLexical ==
    IF \E i \in CallsTo("lexical.search") : ~calls[i].raised
    THEN calls[CHOOSE i \in CallsTo("lexical.search") : ~calls[i].raised].value
    ELSE <<>>

DeliveredSemantic ==
    IF \E i \in SearchCallAfter("fast.embed") : ~calls[i].raised
    THEN DocScores(calls[CHOOSE i \in SearchCallAfter("fast.embed") :
                             ~calls[i].raised].value)
    ELSE <<>>

----------------------------------------------------------------------------
(* Properties of TwoTierSearcher.search *)

\* C1: one search call yields at most two results; the first is INITIAL, a
\* second one is REFINED or REFINEMENT_FAILED and comes after it; once the
\* generator has finished, was dropped or let an exception out, the results
\* are those already yielded.
C1_PhaseSequence ==
    mode = "search" =>
        /\ Phases \in {<<>>, <<INITIAL>>, <<INITIAL, REFINED>>,
                       <<INITIAL, REFINEMENT_FAILED>>}
        /\ pc = "created" => emitted = <<>>
        /\ pc \in {"yield_74", "yield_86"} => Len(emitted) = 1
        /\ pc \in {"yield_143", "yield_148"} => Len(emitted) = 2
        /\ pc = "finished" => Len(emitted) \in {1, 2}

C1_Witness ==
    /\ mode = "search" /\ pc = "finished"
    /\ Phases = <<INITIAL, REFINEMENT_FAILED>>

\* C2: for a query that is not blank, a searcher with a quality embedder and
\* fast_only = false yields exactly INITIAL then REFINED, with
\* REFINEMENT_FAILED in place of REFINED exactly when a refinement step
\* raised; with fast_only = true or no quality embedder it yields exactly
\* INITIAL and never calls the quality embedder.
C2_TwoPhasesOrOne ==
    (mode = "search" /\ ~Blank(query)) =>
        IF cfg.has_quality /\ ~cfg.fast_only
        THEN pc = "finished" =>
                Phases = IF RefinementRaised
                         THEN <<INITIAL, REFINEMENT_FAILED>>
                         ELSE <<INITIAL, REFINED>>
        ELSE /\ CallsTo("quality.embed") = {}
             /\ pc = "finished" => Phases = <<INITIAL>>

C2_Witness ==
    /\ mode = "search" /\ ~Blank(query) /\ pc = "finished"
    /\ cfg.has_quality /\ ~cfg.fast_only
    /\ Phases = <<INITIAL, REFINED>>
    /\ emitted[2].hits # <<>>

\* C3: the initial phase never lets an exception out: whatever fails among
\* the fast embedder, index.search and the lexical backend, the first next()
\* yields INITIAL, and its hits are the fusion, cut to k, of the lists of the
\* sources that did not fail (a failed source counts as an empty list).
C3_InitialNeverRaises ==
    (mode = "search" /\ ~Blank(query)) =>
        /\ pc # "raised"
        /\ pc # "created" =>
              /\ Len(emitted) >= 1
              /\ emitted[1] = SearchResult(INITIAL,
                     Take(fuse(DeliveredLexical, DeliveredSemantic, cfg.rrf_k), k))

C3_Witness ==
    /\ mode = "search" /\ pc = "yield_86"
    /\ \E i \in SearchCallAfter("fast.embed") : calls[i].raised
    /\ \E i \in CallsTo("lexical.search") : calls[i].raised
    /\ emitted = <<SearchResult(INITIAL, <<>>)>>

\* C4: when a step of the refinement phase raises, the second result is
\* REFINEMENT_FAILED and carries the hits of the INITIAL result, same
\* elements in the same order; no exception leaves the generator.
C4_FailedCarriesInitialHits ==
    mode = "search" =>
        /\ RefinementRaised =>
              /\ pc # "raised"
              /\ Phases = <<INITIAL, REFINEMENT_FAILED>>
        /\ (Len(emitted) = 2 /\ emitted[2].phase = REFINEMENT_FAILED) =>
              emitted[2].hits = emitted[1].hits

C4_Witness ==
    /\ mode = "search" /\ pc = "yield_143"
    /\ \E i \in SearchCallAfter("quality.embed") : calls[i].raised
    /\ Len(emitted[1].hits) = 2
    /\ emitted[2] = SearchResult(REFINEMENT_FAILED, emitted[1].hits)

\* C5: as long as the caller has not asked for the second element (the
\* generator is not started, is suspended at its first yield, or was dropped
\* there), the quality embedder was not called and index.search was called
\* at most once, for the fast embedding.
C5_AbandonCancelsRefinement ==
    (mode = "search" /\ pc \in {"created", "yield_74", "yield_86", "closed"}) =>
        /\ CallsTo("quality.embed") = {}
        /\ SearchCallAfter("quality.embed") = {}
        /\ Cardinality(CallsTo("index.search")) <= 1

C5_Witness ==
    /\ mode = "search" /\ pc = "closed"
    /\ cfg.has_quality /\ ~cfg.fast_only
    /\ Len(emitted) = 1 /\ emitted[1].hits # <<>>
    /\ Cardinality(CallsTo("index.search")) = 1

\* C6: a blank query yields exactly one result, INITIAL with no hits, and no
\* collaborator is called, whatever the configuration.
C6_EmptyQueryShortCircuit ==
    (mode = "search" /\ Blank(query)) =>
        /\ calls = <<>>
        /\ pc \in {"created", "yield_74", "finished", "closed"}
        /\ pc # "created" => emitted = <<SearchResult(INITIAL, <<>>)>>

C6_Witness ==
    /\ mode = "search" /\ query = <<" ">> /\ k = MaxK
    /\ cfg.has_quality /\ ~cfg.fast_only /\ cfg.has_lexical
    /\ index.doc_ids # <<>>
    /\ pc = "finished"

----------------------------------------------------------------------------
(* Properties of reciprocal_rank_fusion and blend_scores *)

\* the 4-level order, stated level by level: x may stand before y
LexicalAbove(x, y) ==
    /\ ~IsNone(x.lexical_score)
    /\ IsNone(y.lexical_score) \/ Get(x.lexical_score) > Get(y.lexical_score)

LexicalSame(x, y) ==
    \/ IsNone(x.lexical_score) /\ IsNone(y.lexical_score)
    \/ /\ ~IsNone(x.lexical_score) /\ ~IsNone(y.lexical_score)
       /\ Get(x.lexical_score) = Get(y.lexical_score)

InOrder(x, y) ==
    \/ x.rrf_score > y.rrf_score
    \/ /\ x.rrf_score = y.rrf_score
       /\ \/ x.in_both_sources /\ ~y.in_both_sources
          \/ /\ x.in_both_sources = y.in_both_sources
             /\ \/ LexicalAbove(x, y)
                \/ LexicalSame(x, y) /\ DocOrd(x.doc_id) <= DocOrd(y.doc_id)

\* C7: the result of reciprocal_rank_fusion and the result of blend_scores
\* are sorted by rrf_score descending, then in_both_sources first, then
\* lexical_score descending with an absent one last, then doc_id ascending;
\* no two hits share a doc id, so the order is fixed by the contents, and
\* blend_scores returns the same list for every iteration order of its set.
C7_SortedByFourLevelKey ==
    (mode \in {"rrf", "blend"} /\ pc = "returned") =>
        /\ \A i, j \in 1..Len(out) :
              i < j => InOrder(out[i], out[j]) /\ out[i].doc_id # out[j].doc_id
        /\ mode = "blend" =>
              \A order \in Orders(AllDocIds(args.fast_hits, args.quality_hits)) :
                  out = blend_scores(args.fast_hits, args.quality_hits,
                                     args.quality_weight, order)

\* lexical b, semantic a: equal scores, neither in both sources; b goes first
\* because it has a lexical score
C7_Witness ==
    /\ mode = "rrf" /\ pc = "returned"
    /\ args.lexical = <<<<"b", 2 * ONE>>>> /\ args.semantic = <<<<"a", ONE>>>>
    /\ Len(out) = 2 /\ out[1].rrf_score = out[2].rrf_score
    /\ out[1].doc_id = "b" /\ out[2].doc_id = "a"

\* 1-based position of doc id d in a ranked list without repeats, 0 if absent
PositionOf(list, d) ==
    IF \E i \in 1..Len(list) : list[i][1] = d
    THEN CHOOSE i \in 1..Len(list) : list[i][1] = d
    ELSE 0

DocsOf(list) == {list[i][1] : i \in 1..Len(list)}

\* C8: for lists in which no doc id repeats, reciprocal_rank_fusion returns
\* one hit per doc id of the union; its rrf_score is the sum of
\* 1/(k + rank + 1) over the lists that hold it, and its rank and score per
\* source are its 0-based position and raw score there, absent otherwise.
C8_RrfScoresAndRanks ==
    (mode = "rrf" /\ pc = "returned"
        /\ NoRepeat(args.lexical) /\ NoRepeat(args.semantic)) =>
        /\ Len(out) = Cardinality(DocsOf(args.lexical) \cup DocsOf(args.semantic))
        /\ {out[i].doc_id : i \in 1..Len(out)}
              = DocsOf(args.lexical) \cup DocsOf(args.semantic)
        /\ \A i \in 1..Len(out) :
              LET lp == PositionOf(args.lexical, out[i].doc_id)
                  sp == PositionOf(args.semantic, out[i].doc_id)
              IN /\ out[i].rrf_score =
                        (IF lp > 0 THEN ONE \div (args.rrf_k + (lp - 1) + 1) ELSE 0)
                      + (IF sp > 0 THEN ONE \div (args.rrf_k + (sp - 1) + 1) ELSE 0)
                 /\ out[i].lexical_rank = IF lp > 0 THEN Some(lp - 1) ELSE None
                 /\ out[i].lexical_score =
                        IF lp > 0 THEN Some(args.lexical[lp][2]) ELSE None
                 /\ out[i].semantic_rank = IF sp > 0 THEN Some(sp - 1) ELSE None
                 /\ out[i].semantic_score =
                        IF sp > 0 THEN Some(args.semantic[sp][2]) ELSE None

C8_Witness ==
    /\ mode = "rrf" /\ pc = "returned" /\ args.rrf_k = DEFAULT_K
    /\ NoRepeat(args.lexical) /\ NoRepeat(args.semantic)
    /\ Len(args.lexical) = 2 /\ Len(args.semantic) = 2
    /\ Len(out) = 3
    /\ out[1].rrf_score = ONE \div (DEFAULT_K + 1) + ONE \div (DEFAULT_K + 2)

\* the terms 1/(k + rank + 1) of the positions at which a list holds d
TermsOf(list, d, kk) ==
    {ONE \div (kk + (i - 1) + 1) : i \in {j \in 1..Len(list) : list[j][1] = d}}

\* C9: each source contributes at most once per document, also when a doc id
\* repeats within a list: the rrf_score of a hit is at most one term of the
\* lexical list plus at most one term of the semantic list, hence at most
\* 2/(k + 1).
C9_AtMostOncePerSource ==
    (mode = "rrf" /\ pc = "returned") =>
        \A i \in 1..Len(out) :
            /\ \E lt \in {0} \cup TermsOf(args.lexical, out[i].doc_id, args.rrf_k) :
               \E st \in {0} \cup TermsOf(args.semantic, out[i].doc_id, args.rrf_k) :
                  out[i].rrf_score = lt + st
            /\ out[i].rrf_score <= (2 * ONE) \div (args.rrf_k + 1)

HitConsistent(hit) ==
    hit.in_both_sources
        = (~IsNone(hit.lexical_rank) /\ ~IsNone(hit.semantic_rank))

\* C10: every hit returned by reciprocal_rank_fusion, and every hit of every
\* result search yields (fused, single-source or blended), has
\* in_both_sources true exactly when it has a lexical and a semantic rank.
C10_InBothSources ==
    /\ (mode \in {"rrf", "blend"} /\ pc = "returned") =>
          \A i \in 1..Len(out) : HitConsistent(out[i])
    /\ mode = "search" =>
          \A r \in 1..Len(emitted) :
             \A i \in 1..Len(emitted[r].hits) : HitConsistent(emitted[r].hits[i])

C10_Witness ==
    /\ mode = "search" /\ Phases = <<INITIAL, REFINED>>
    /\ \E i \in 1..Len(emitted[2].hits) : emitted[2].hits[i].in_both_sources
    /\ \E i \in 1..Len(emitted[2].hits) : ~emitted[2].hits[i].in_both_sources
    /\ \E i \in 1..Len(emitted[1].hits) : emitted[1].hits[i].in_both_sources

\* the rrf_scores a list holds for doc id d; 0 when it does not hold d
RrfScoresIn(hits, d) ==
    IF \E i \in 1..Len(hits) : hits[i].doc_id = d
    THEN {hits[i].rrf_score : i \in {j \in 1..Len(hits) : hits[j].doc_id = d}}
    ELSE {0}

HitDocs(hits) == {hits[i].doc_id : i \in 1..Len(hits)}

\* C11: blend_scores returns exactly one hit per doc id of the union of the
\* two lists, and the rrf_score of each is
\* w * quality_rrf + (1 - w) * fast_rrf (w in tenths here), where a list
\* that does not hold the document counts as 0.
C11_BlendedScores ==
    (mode = "blend" /\ pc = "returned") =>
        /\ Len(out) = Cardinality(HitDocs(args.fast_hits) \cup HitDocs(args.quality_hits))
        /\ HitDocs(out) = HitDocs(args.fast_hits) \cup HitDocs(args.quality_hits)
        /\ \A i \in 1..Len(out) :
              \E q \in RrfScoresIn(args.quality_hits, out[i].doc_id) :
              \E f \in RrfScoresIn(args.fast_hits, out[i].doc_id) :
                 10 * out[i].rrf_score
                    = args.quality_weight * q + (10 - args.quality_weight) * f

\* fast = {a: 1.0, b: 0.5}, quality = {a: 0.8, c: 0.9}, w = 0.7 gives
\* a = 0.86, c = 0.63, b = 0.15
C11_Witness ==
    /\ mode = "blend" /\ pc = "returned" /\ args.quality_weight = 7
    /\ [i \in 1..Len(args.fast_hits) |->
           <<args.fast_hits[i].doc_id, args.fast_hits[i].rrf_score>>]
          = <<<<"a", ONE>>, <<"b", ONE \div 2>>>>
    /\ [i \in 1..Len(args.quality_hits) |->
           <<args.quality_hits[i].doc_id, args.quality_hits[i].rrf_score>>]
          = <<<<"a", (4 * ONE) \div 5>>, <<"c", (9 * ONE) \div 10>>>>
    /\ [i \in 1..Len(out) |-> <<out[i].doc_id, out[i].rrf_score>>]
          = <<<<"a", (86 * ONE) \div 100>>, <<"c", (63 * ONE) \div 100>>,
              <<"b", (15 * ONE) \div 100>>>>

----------------------------------------------------------------------------
(* Properties of VectorIndex *)

\* the rows of the vector matrix of an index (none while _vectors is None)
RowsOf(idx) == IF IsNone(idx.vectors) THEN <<>> ELSE Get(idx.vectors)

\* C12: after any sequence of add and add_batch calls, successful or
\* failing, the number of doc ids equals the number of rows of the matrix,
\* every row has as many columns as the declared dimension, and doc_ids and
\* the rows are the ids and embeddings of the successful appends in order.
C12_CountMatchesRows ==
    (mode = "vindex" /\ pc = "open") =>
        /\ Len(index.doc_ids) = Len(RowsOf(index))
        /\ \A i \in 1..Len(RowsOf(index)) : Len(RowsOf(index)[i]) = index.dimension
        /\ index.doc_ids = [i \in 1..Len(appended) |-> appended[i][1]]
        /\ RowsOf(index) = [i \in 1..Len(appended) |-> appended[i][2]]

\* an add, then a failing add_batch: two different documents are already in
C12_Witness ==
    /\ mode = "vindex" /\ pc = "open"
    /\ args.op = "add_batch" /\ out.raised
    /\ index.doc_ids = <<"b", "a">>
    /\ RowsOf(index) = <<<<2049>>, <<1>>>>

\* C13: a failing mutation leaves the index unchanged.  add with an
\* embedding whose shape is not (D,) raises DimensionMismatchError, add_batch
\* with a matrix whose column count is not D raises DimensionMismatchError,
\* add_batch with a row count other than len(doc_ids) raises, and after each
\* the index is what it was before the call; add_batch appends all of its
\* rows or none.
C13_FailedMutationChangesNothing ==
    (mode = "vindex" /\ pc = "open" /\ args.op \in {"add", "add_batch"}) =>
        /\ (args.op = "add" /\ args.embedding.shape # <<before.dimension>>) =>
              out = Raise("DimensionMismatchError")
        /\ (args.op = "add_batch" /\ args.matrix.ndim = 2
                /\ args.matrix.shape[2] # before.dimension) =>
              out = Raise("DimensionMismatchError")
        /\ (args.op = "add_batch" /\ args.matrix.ndim = 2
                /\ args.matrix.shape[2] = before.dimension
                /\ args.matrix.shape[1] # Len(args.doc_ids)) =>
              out.raised
        /\ out.raised => index = before
        /\ (args.op = "add_batch" /\ ~out.raised) =>
              /\ Len(index.doc_ids) = Len(before.doc_ids) + Len(args.doc_ids)
              /\ Len(RowsOf(index)) = Len(RowsOf(before)) + Len(args.doc_ids)

\* two rows handed in with one doc id, on an index that holds a row
C13_Witness ==
    /\ mode = "vindex" /\ pc = "open"
    /\ args.op = "add_batch" /\ out.raised
    /\ args.matrix.ndim = 2 /\ args.matrix.shape = <<2, 1>> /\ Len(args.doc_ids) = 1
    /\ Len(before.doc_ids) = 1 /\ index = before

\* C14: search with a query whose width differs from the declared
\* dimension raises DimensionMismatchError, whatever the index holds and
\* whatever k is.
C14_SearchSurfacesMismatch ==
    (mode = "vindex" /\ args.op = "search"
        /\ Len(args.query) # before.dimension) =>
        out = Raise("DimensionMismatchError")

\* the dot product, summed from the last component
RECURSIVE InnerProduct(_, _)
InnerProduct(u, v) ==
    IF Len(u) = 0 THEN 0
    ELSE InnerProduct(SubSeq(u, 1, Len(u) - 1), SubSeq(v, 1, Len(v) - 1))
            + u[Len(u)] * v[Len(v)]

C17_SaveLoadRoundTrip ==
    (mode = "vindex" /\ pc = "loaded") =>
        /\ ~out.raised
        /\ out.value.dimension = index.dimension
        /\ out.value.embedder_id = index.embedder_id
        /\ out.value.use_f16 = index.use_f16
        /\ out.value.doc_ids = index.doc_ids
        /\ Len(out.value.doc_ids) = Len(RowsOf(out.value))

\* a quantized index of two rows: identity survives, the value 2049 does not
C17_Witness ==
    /\ mode = "vindex" /\ pc = "loaded" /\ ~out.raised
    /\ index.use_f16 /\ index.doc_ids = <<"a", "b">>
    /\ RowsOf(index) = <<<<2049>>, <<1>>>>
    /\ RowsOf(out.value) = <<<<2048>>, <<1>>>>
    /\ out.value.doc_ids = <<"a", "b">>

\* both files are present and readable and the sidecar has the keys load
\* reads without a default
FilesReadable ==
    /\ ~IsNone(disk.json) /\ ~IsNone(disk.npz)
    /\ Get(disk.json).wellformed /\ Get(disk.npz).readable
    /\ {"dimension", "doc_ids"} \subseteq DOMAIN Get(disk.json).object

\* C18: load rejects inconsistent files with IndexCorruptedError: when the
\* stored matrix has a row count other than the number of doc ids of the
\* sidecar, or a column count other than the sidecar's dimension, load raises
\* IndexCorruptedError; no index it returns has a count other than the number
\* of its rows.
C18_LoadRejectsInconsistent ==
    (mode = "vindex" /\ pc \in {"loaded", "loaded_damaged"}) =>
        /\ ~out.raised => Len(out.value.doc_ids) = Len(RowsOf(out.value))
        /\ FilesReadable =>
              LET meta == Get(disk.json).object
                  vectors == Get(disk.npz).vectors
              IN (\/ vectors.shape[1] # Len(meta.doc_ids)
                  \/ vectors.shape[2] # meta.dimension)
                    => out = Raise("IndexCorruptedError")

\* C19: load raises IndexCorruptedError, and nothing else, when the files
\* are unusable: the sidecar or the archive is missing, the sidecar is not
\* well-formed JSON, or a file is cut short.
C19_UnusableFilesAreCorrupted ==
    (mode = "vindex" /\ pc = "loaded_damaged"
        /\ (\/ IsNone(disk.json) \/ IsNone(disk.npz)
            \/ ~Get(disk.json).wellformed \/ ~Get(disk.npz).readable)) =>
        out = Raise("IndexCorruptedError")

\* the SearchError subclasses of core/errors.py
Taxonomy ==
    {"EmbedderUnavailableError", "EmbeddingFailedError", "IndexCorruptedError",
     "DimensionMismatchError", "QueryParseError", "SearchTimeoutError"}

\* C20: every exception add, add_batch, search or load raises to the caller
\* is of a class of the taxonomy, also for add_batch with a row count other
\* than len(doc_ids) and for load of a sidecar that lacks a required key.
C20_ErrorsInTaxonomy ==
    (mode = "vindex" /\ args.op \in {"add", "add_batch", "search", "load"}
        /\ out.raised) =>
        out.value[1] \in Taxonomy

----------------------------------------------------------------------------
(* Properties of classify_query, adaptive_budget and canonicalization *)

\* positions at which a whitespace-delimited token begins
TokenStarts(q) ==
    {i \in 1..Len(q) : q[i] # " " /\ (i = 1 \/ q[i - 1] = " ")}

\* the characters of q that are not whitespace: its token, when it has one
NonBlank(q) == SelectSeq(q, LAMBDA c : c # " ")

\* letters, a dash, digits, with at least one letter and one digit
IsTicketId(tok) ==
    \E n \in 1..(Len(tok) - 2) :
        /\ \A i \in 1..n : tok[i] = "a"
        /\ tok[n + 1] = "-"
        /\ \A i \in (n + 2)..Len(tok) : tok[i] = "1"

IsIdentifier(tok) ==
    \/ IsTicketId(tok)
    \/ \E i \in 1..Len(tok) : tok[i] = "/"
    \/ \A i \in 1..Len(tok) : tok[i] \in {"a", "1", "-", "/"}

\* C21: classify_query assigns exactly one class by first match: EMPTY when
\* nothing is left after trimming; else IDENTIFIER for a single token that
\* is a ticket id, holds a path separator, or consists of word characters,
\* dots, slashes and dashes; else SHORT_KEYWORD for at most 3 tokens; else
\* NATURAL_LANGUAGE.
C21_ClassifyByPrecedence ==
    (mode = "classify" /\ pc = "returned") =>
        LET n == Cardinality(TokenStarts(args.query))
        IN out = IF n = 0 THEN EMPTY
                 ELSE IF n = 1 /\ IsIdentifier(NonBlank(args.query)) THEN IDENTIFIER
                 ELSE IF n <= 3 THEN SHORT_KEYWORD
                 ELSE NATURAL_LANGUAGE

\* one token with a path separator and a character outside the identifier set
C21_Witness ==
    /\ mode = "classify" /\ pc = "returned"
    /\ args.query = <<" ", "a", "/", "?">> /\ out = IDENTIFIER

\* C23: canonicalize is idempotent on texts no longer than max_length:
\* applying it to its own result changes nothing.
C23_CanonicalizeIdempotent ==
    (mode = "canonicalize" /\ pc = "returned"
        /\ Len(args.text) <= args.max_length) =>
        out[2] = out[1]

\* C30: canonicalize_query returns at most max_length characters, with no
\* whitespace at either end, and rewrites nothing: the result is the
\* beginning of the text it was given, trimmed and composed.
C30_QueryTrimmedAndBounded ==
    (mode = "canonicalize_query" /\ pc = "returned") =>
        /\ Len(out) <= args.max_length
        /\ out # <<>> => (out[1] # " " /\ out[Len(out)] # " ")
        /\ \A i \in 1..Len(out) : out[i] \in {" ", "a", "COMB", "A_ACUTE"}

\* the class search computes for its query
ClassOf(q) == classify_query(canonicalize_query(q, DEFAULT_QUERY_MAX))

\* the multipliers the specification tabulates, as (lexical, semantic)
TabulatedBudget(c, m) ==
    CASE c = EMPTY -> <<0, 0>>
      [] c = IDENTIFIER -> <<2 * m, IF m \div 2 >= 1 THEN m \div 2 ELSE 1>>
      [] c = SHORT_KEYWORD -> <<m, m>>
      [] c = NATURAL_LANGUAGE -> <<IF m \div 2 >= 1 THEN m \div 2 ELSE 1, 2 * m>>

\* C22: every request search makes to the index asks for k times the
\* semantic multiplier of the query's class, every request to the lexical
\* backend for k times the lexical multiplier, with the multipliers of the
\* table; so identifiers ask more of the lexical source, natural language
\* more of the semantic one, and short keywords the same of both.
C22_BudgetsScaleRequests ==
    mode = "search" =>
        LET c == ClassOf(query)
            m == cfg.candidate_multiplier
            lex == TabulatedBudget(c, m)[1]
            sem == TabulatedBudget(c, m)[2]
        IN /\ \A i \in CallsTo("index.search") : calls[i].arg = k * sem
           /\ \A i \in CallsTo("lexical.search") : calls[i].arg = k * lex
           /\ c = EMPTY => calls = <<>>
           /\ c = IDENTIFIER => lex > sem
           /\ c = NATURAL_LANGUAGE => sem > lex
           /\ c = SHORT_KEYWORD => lex = sem

C22_Witness ==
    /\ mode = "search" /\ ClassOf(query) = IDENTIFIER
    /\ cfg.candidate_multiplier = MaxMultiplier /\ k = MaxK
    /\ \E i \in CallsTo("index.search") :
           calls[i].arg = MaxK * (MaxMultiplier \div 2)
    /\ \E i \in CallsTo("lexical.search") :
           calls[i].arg = MaxK * 2 * MaxMultiplier

----------------------------------------------------------------------------
(* Properties of the two phases of TwoTierSearcher.search *)

\* what index.search returned for the quality embedding, as (doc_id, score)
QualitySemantic ==
    IF \E i \in SearchCallAfter("quality.embed") : ~calls[i].raised
    THEN DocScores(calls[CHOOSE i \in SearchCallAfter("quality.embed") :
                             ~calls[i].raised].value)
    ELSE <<>>

\* C24: the REFINED hits are blend(initial_hits, Q[:k], quality_weight)[:k]
\* where Q is the reciprocal rank fusion of the lexical list of the initial
\* phase and the quality vector hits, whether the lexical list is empty or
\* not.
C24_RefinedBlendsRRF ==
    (mode = "search" /\ Len(emitted) = 2 /\ emitted[2].phase = REFINED) =>
        LET Q == reciprocal_rank_fusion(DeliveredLexical, QualitySemantic, cfg.rrf_k)
            top == Take(Q, k)
        IN \E order \in Orders(AllDocIds(emitted[1].hits, top)) :
              emitted[2].hits
                 = Take(blend_scores(emitted[1].hits, top, cfg.quality_weight,
                                     order), k)

\* the hit the fallback makes of entry i of a single list
OnlyLexicalHit(list, i) ==
    [doc_id |-> list[i][1], rrf_score |-> list[i][2],
     lexical_rank |-> Some(i - 1), semantic_rank |-> None,
     lexical_score |-> Some(list[i][2]), semantic_score |-> None,
     in_both_sources |-> FALSE]

OnlySemanticHit(list, i) ==
    [doc_id |-> list[i][1], rrf_score |-> list[i][2],
     lexical_rank |-> None, semantic_rank |-> Some(i - 1),
     lexical_score |-> None, semantic_score |-> Some(list[i][2]),
     in_both_sources |-> FALSE]

\* C25: with exactly one of the two lists non-empty the INITIAL hits are the
\* first k entries of that list in order, each with that source's rank and
\* raw score, rrf_score the raw score, nothing of the other source and
\* in_both_sources false; with both empty there are no hits; with both
\* non-empty the hits are the first k of the reciprocal rank fusion.
C25_SingleSourceFallback ==
    (mode = "search" /\ Len(emitted) >= 1 /\ ~Blank(query)) =>
        LET lex == DeliveredLexical
            sem == DeliveredSemantic
            hits == emitted[1].hits
            n == IF lex # <<>> THEN Len(lex) ELSE Len(sem)
        IN /\ (lex = <<>> /\ sem = <<>>) => hits = <<>>
           /\ (lex = <<>> /\ sem # <<>>) =>
                 hits = [i \in 1..(IF k < n THEN k ELSE n) |-> OnlySemanticHit(sem, i)]
           /\ (lex # <<>> /\ sem = <<>>) =>
                 hits = [i \in 1..(IF k < n THEN k ELSE n) |-> OnlyLexicalHit(lex, i)]
           /\ (lex # <<>> /\ sem # <<>>) =>
                 hits = Take(reciprocal_rank_fusion(lex, sem, cfg.rrf_k), k)

C25_Witness ==
    /\ mode = "search" /\ Len(emitted) >= 1 /\ k = 1
    /\ DeliveredLexical = <<>> /\ Len(DeliveredSemantic) = 2
    /\ emitted[1].hits = <<OnlySemanticHit(DeliveredSemantic, 1)>>

\* C26: one search call invokes the fast embedder at most once, the lexical
\* backend at most once and only before anything of the refinement, the
\* quality embedder at most once and index.search at most twice; the lexical
\* list the refinement fuses is the list the backend returned in the initial
\* phase.
C26_NoRetriesLexicalReused ==
    mode = "search" =>
        /\ Cardinality(CallsTo("fast.embed")) <= 1
        /\ Cardinality(CallsTo("lexical.search")) <= 1
        /\ Cardinality(CallsTo("quality.embed")) <= 1
        /\ Cardinality(CallsTo("index.search")) <= 2
        /\ \A i \in CallsTo("lexical.search") :
           \A j \in CallsTo("quality.embed") : i < j
        /\ Len(emitted) >= 1 /\ ~Blank(query) =>
              frame.lexical_results = DeliveredLexical

C26_Witness ==
    /\ mode = "search" /\ pc = "yield_148"
    /\ Cardinality(CallsTo("fast.embed")) = 1
    /\ Cardinality(CallsTo("lexical.search")) = 1
    /\ Cardinality(CallsTo("quality.embed")) = 1
    /\ Cardinality(CallsTo("index.search")) = 2
    /\ frame.lexical_results # <<>>

\* C27: every result search(query, k) yields, in any phase, has at most k
\* hits.
C27_AtMostKHits ==
    mode = "search" => \A i \in 1..Len(emitted) : Len(emitted[i].hits) <= k

\* k = 1, and the two tiers put different documents first, so the blend
\* holds two documents before it is cut
C27_Witness ==
    /\ mode = "search" /\ k = 1 /\ Len(emitted) = 2
    /\ emitted[2].phase = REFINED
    /\ Len(emitted[1].hits) = 1 /\ Len(emitted[2].hits) = 1
    /\ Len(QualitySemantic) = 2
    /\ QualitySemantic[1][1] # emitted[1].hits[1].doc_id

\* lexical_rank, semantic_rank, lexical_score, semantic_score, in_both_sources
Metadata(hit) ==
    <<hit.lexical_rank, hit.semantic_rank, hit.lexical_score,
      hit.semantic_score, hit.in_both_sources>>

MetadataIn(hits, doc_id) ==
    {Metadata(hits[i]) : i \in {j \in 1..Len(hits) : hits[j].doc_id = doc_id}}

\* C29: the metadata of every hit blend_scores returns is that of a quality
\* hit of the same doc id if the quality list holds one, and otherwise that
\* of a fast hit; it is never put together from both.
C29_MetadataFromOneTier ==
    (mode = "blend" /\ pc = "returned") =>
        \A i \in 1..Len(out) :
            IF MetadataIn(args.quality_hits, out[i].doc_id) # {}
            THEN Metadata(out[i]) \in MetadataIn(args.quality_hits, out[i].doc_id)
            ELSE Metadata(out[i]) \in MetadataIn(args.fast_hits, out[i].doc_id)

\* document b is lexical-only in the fast tier and semantic-only in the
\* quality tier; document a is only in the fast tier
C29_Witness ==
    /\ mode = "blend" /\ pc = "returned"
    /\ Len(args.fast_hits) = 2 /\ Len(args.quality_hits) = 1
    /\ args.fast_hits[1].doc_id = "a" /\ args.fast_hits[2].doc_id = "b"
    /\ Metadata(args.fast_hits[2]) = <<Some(0), None, Some(ONE), None, FALSE>>
    /\ args.quality_hits[1].doc_id = "b"
    /\ Metadata(args.quality_hits[1]) = <<None, Some(0), None, Some(ONE), FALSE>>
    /\ \E i \in 1..Len(out) : /\ out[i].doc_id = "b"
                              /\ Metadata(out[i]) = Metadata(args.quality_hits[1])
    /\ \E i \in 1..Len(out) : /\ out[i].doc_id = "a"
                              /\ Metadata(out[i]) = Metadata(args.fast_hits[1])

----------------------------------------------------------------------------
(* Properties of overlapping search calls *)

\* the states a generator goes through when it is the only one running
RECURSIVE AloneFrom(_, _)
AloneFrom(states, steps) ==
    IF steps = 0 THEN states
    ELSE AloneFrom(states \cup UNION {GenSteps(g, g.frame, index, cfg, args) :
                                         g \in states},
                   steps - 1)

Alone(i) ==
    AloneFrom({[query |-> query[i], k |-> k[i], pc |-> "created",
                emitted |-> <<>>, calls |-> <<>>, frame |-> NoFrame]}, 3)

\* C28: however the steps of two search generators on one searcher are
\* interleaved, each generator is in a state, and has yielded the results,
\* it reaches when it runs alone against the same index and collaborators.
C28_OverlappingCallsIndependent ==
    mode = "pair" => \A i \in Generators : Generator(i) \in Alone(i)

\* A yields INITIAL, B yields INITIAL, then A and B yield REFINED, over
\* different queries with different lexical lists
C28_Witness ==
    /\ mode = "pair"
    /\ query[1] # query[2]
    /\ frame[1].lexical_results # frame[2].lexical_results
    /\ frame[1].initial_hits # frame[2].initial_hits
    /\ out = frame[2]
    /\ \A i \in Generators :
          /\ pc[i] = "yield_148"
          /\ emitted[i][2].phase = REFINED
    /\ emitted[1][2].hits # emitted[2][2].hits

=============================================================================
